---------------------------- MODULE Spec2Model ----------------------------
(***************************************************************************)
(* Model of createMpaPlugin (plugin.ts): the page table built by           *)
(* configInit/scanPages, the composite route pattern rewriteReg, the dev   *)
(* server request middleware, the template-change watcher and transform.   *)
(*                                                                         *)
(* Strings that the code inspects character by character (names, served    *)
(* paths, urls, bases, entries, template paths) are sequences of           *)
(* one-character strings.  File contents are sequences of tokens           *)
(* [k |-> kind, v |-> text]: the only things the code looks for in a       *)
(* content are the closing body tag and what ejs substitutes.              *)
(***************************************************************************)
EXTENDS Integers, Sequences, FiniteSets, TLC

(***************************************************************************)
(* Bounds of the model.                                                    *)
(***************************************************************************)
MaxPages == 2          \* longest explicit page list (option and reloadPages)
MaxListing == 2        \* most entries in the scanned directory
MaxReloads == 1        \* reloadPages calls in one run
MaxRules == 2          \* longest list of custom rewrite rules

(***************************************************************************)
(* String helpers.                                                         *)
(***************************************************************************)
Slash == <<"/">>
DotHtml == <<".", "h", "t", "m", "l">>
DotHtm == <<".", "h", "t", "m">>
Undefined == <<"u", "n", "d", "e", "f", "i", "n", "e", "d">>

\* s.startsWith(p)
StartsWith(s, p) ==
  /\ Len(p) <= Len(s)
  /\ SubSeq(s, 1, Len(p)) = p

\* s.endsWith(p)
EndsWith(s, p) ==
  /\ Len(p) <= Len(s)
  /\ SubSeq(s, Len(s) - Len(p) + 1, Len(s)) = p

\* s.includes(c) for a one-character c
Includes(s, c) == \E i \in 1..Len(s) : s[i] = c

\* p occurs in s at position i
OccursAt(s, p, i) ==
  /\ i + Len(p) - 1 <= Len(s)
  /\ SubSeq(s, i, i + Len(p) - 1) = p

\* JavaScript truthiness of an optional string: undefined and "" are falsy
Truthy(s) == s # <<>>

RECURSIVE SplitSlash(_, _)
\* s.split('/'), cur being the segment read so far
SplitSlash(s, cur) ==
  IF s = <<>> THEN <<cur>>
  ELSE IF Head(s) = "/" THEN <<cur>> \o SplitSlash(Tail(s), <<>>)
  ELSE SplitSlash(Tail(s), Append(cur, Head(s)))

RECURSIVE NormalizeSegments(_, _, _)
\* posix normalize of the segments: drop "" and ".", resolve ".."
NormalizeSegments(segs, out, isAbs) ==
  IF segs = <<>> THEN out
  ELSE LET sg == Head(segs) IN
       IF sg = <<>> \/ sg = <<".">> THEN NormalizeSegments(Tail(segs), out, isAbs)
       ELSE IF sg = <<".", ".">>
         THEN IF out # <<>> /\ out[Len(out)] # <<".", ".">>
                THEN NormalizeSegments(Tail(segs), SubSeq(out, 1, Len(out) - 1), isAbs)
              ELSE IF isAbs THEN NormalizeSegments(Tail(segs), out, isAbs)
              ELSE NormalizeSegments(Tail(segs), Append(out, sg), isAbs)
       ELSE NormalizeSegments(Tail(segs), Append(out, sg), isAbs)

RECURSIVE JoinSlash(_)
JoinSlash(segs) ==
  IF segs = <<>> THEN <<>>
  ELSE IF Len(segs) = 1 THEN Head(segs)
  ELSE Head(segs) \o Slash \o JoinSlash(Tail(segs))

\* vite's normalizePath on posix: path.posix.normalize
normalizePath(p) ==
  IF p = <<>> THEN <<".">>
  ELSE LET isAbs == p[1] = "/"
           trailing == p[Len(p)] = "/"
           body == JoinSlash(NormalizeSegments(SplitSlash(p, <<>>), <<>>, isAbs))
       IN  IF body = <<>>
             THEN IF isAbs THEN Slash ELSE IF trailing THEN <<".", "/">> ELSE <<".">>
           ELSE (IF isAbs THEN Slash ELSE <<>>) \o body
                \o (IF trailing THEN Slash ELSE <<>>)

\* path.join(a, b, ...) of two parts: normalize(a + '/' + b)
PathJoin(a, b) == normalizePath(a \o Slash \o b)


(***************************************************************************)
(* Regular expressions.  A pattern source is read as the RegExp            *)
(* constructor reads it: "." matches any character, "+" repeats the atom   *)
(* before it (greedy), "|" separates alternatives, any other character of  *)
(* the model's alphabet matches itself.  (Names of the model never begin   *)
(* with "+", for which the constructor throws.)                            *)
(***************************************************************************)
AtomMatches(atom, c) == atom = "." \/ atom = c

RECURSIVE RunLength(_, _, _)
\* how many characters from position i on match the atom
RunLength(atom, s, i) ==
  IF i <= Len(s) /\ AtomMatches(atom, s[i]) THEN 1 + RunLength(atom, s, i + 1) ELSE 0

RECURSIVE FragEnds(_, _, _, _)
RECURSIVE PlusEnds(_, _, _, _, _)
\* The positions after a match of frag[k..] begun at position i of s, in the
\* order a backtracking matcher tries them.
FragEnds(frag, k, s, i) ==
  IF k > Len(frag) THEN <<i>>
  ELSE IF k + 1 <= Len(frag) /\ frag[k + 1] = "+"
    THEN PlusEnds(frag, k, s, i, RunLength(frag[k], s, i))
  ELSE IF i <= Len(s) /\ AtomMatches(frag[k], s[i])
    THEN FragEnds(frag, k + 1, s, i + 1)
  ELSE <<>>

\* atom+ taking m characters, then m-1, ... down to 1
PlusEnds(frag, k, s, i, m) ==
  IF m < 1 THEN <<>>
  ELSE FragEnds(frag, k + 2, s, i + m) \o PlusEnds(frag, k, s, i, m - 1)

RECURSIVE SplitBar(_, _)
\* the alternatives of a group body
SplitBar(s, cur) ==
  IF s = <<>> THEN <<cur>>
  ELSE IF Head(s) = "|" THEN <<cur>> \o SplitBar(Tail(s), <<>>)
  ELSE SplitBar(Tail(s), Append(cur, Head(s)))

RECURSIVE JoinBar(_)
\* keys.join('|')
JoinBar(keys) ==
  IF keys = <<>> THEN <<>>
  ELSE IF Len(keys) = 1 THEN Head(keys)
  ELSE Head(keys) \o <<"|">> \o JoinBar(Tail(keys))

\* (\?|#|$) at position j
TailDelimiter(s, j) == j = Len(s) + 1 \/ (j <= Len(s) /\ s[j] \in {"?", "#"})

\* (?:\.html?)?(\?|#|$).* from position j: the optional extension is greedy
SuffixMatches(s, j) ==
  \/ OccursAt(s, DotHtml, j) /\ TailDelimiter(s, j + Len(DotHtml))
  \/ OccursAt(s, DotHtm, j) /\ TailDelimiter(s, j + Len(DotHtm))
  \/ TailDelimiter(s, j)

NoMatch == [matched |-> FALSE, group1 |-> <<>>]

RECURSIVE FirstEnd(_, _, _)
\* the first end position in ends (from index n) after which the suffix matches; 0 if none
FirstEnd(ends, n, s) ==
  IF n > Len(ends) THEN 0
  ELSE IF SuffixMatches(s, ends[n]) THEN ends[n]
  ELSE FirstEnd(ends, n + 1, s)

RECURSIVE TryAlternatives(_, _, _, _)
\* the group's alternatives in order, the group starting at position i
TryAlternatives(alts, n, s, i) ==
  IF n > Len(alts) THEN NoMatch
  ELSE LET e == FirstEnd(FragEnds(alts[n], 1, s, i), 1, s) IN
       IF e # 0 THEN [matched |-> TRUE, group1 |-> SubSeq(s, i, e - 1)]
       ELSE TryAlternatives(alts, n + 1, s, i)

RECURSIVE TryPrefixEnds(_, _, _, _)
\* each way the base prefix matched, in order
TryPrefixEnds(ends, n, alts, s) ==
  IF n > Len(ends) THEN NoMatch
  ELSE LET r == TryAlternatives(alts, 1, s, ends[n]) IN
       IF r.matched THEN r ELSE TryPrefixEnds(ends, n + 1, alts, s)

RECURSIVE MatchFrom(_, _, _)
\* the pattern is not anchored: the search starts at each position in turn
MatchFrom(reg, s, start) ==
  IF start > Len(s) + 1 THEN NoMatch
  ELSE LET r == TryPrefixEnds(FragEnds(reg.prefix, 1, s, start), 1,
                              SplitBar(reg.group, <<>>), s) IN
       IF r.matched THEN r ELSE MatchFrom(reg, s, start + 1)

\* pathname.match(rewriteReg): the match and its first capture group
RegMatch(reg, s) == MatchFrom(reg, s, 1)


(***************************************************************************)
(* Pages and options.  An optional string that is not set is <<>>; like    *)
(* undefined and "" it is falsy.                                           *)
(***************************************************************************)
Unset == <<>>

\* template = 'index.html' when the option is not given
DefaultTemplate == <<"i", "n", "d", "e", "x">> \o DotHtml

THtml == <<"t">> \o DotHtml
TEjs == <<"t", ".", "e", "j", "s">>
MEjs == <<"m", ".", "e", "j", "s">>
\* a template file that exists and is empty
EHtml == <<"e">> \o DotHtml

NameA == <<"a">>
NameB == <<"b">>
NamePlus == <<"a", "+", "b">>
NameSlash == <<"a", "/", "b">>

AbsEntry == <<"/", "m">>
RelEntry == <<"m">>

\* render variables: an object is a sequence of [k, v] in insertion order
NoData == <<>>
DataX == <<[k |-> <<"x">>, v |-> <<"d">>]>>

MkPage(n, f, e, t, d) ==
  [name |-> n, filename |-> f, entry |-> e, template |-> t, data |-> d]

PlainA == MkPage(NameA, Unset, Unset, Unset, NoData)
FullA == MkPage(NameA, <<"b">> \o DotHtml, AbsEntry, THtml, DataX)
PageB == MkPage(NameB, Unset, AbsEntry, TEjs, NoData)
PagePlus == MkPage(NamePlus, Unset, Unset, Unset, NoData)
PageE == MkPage(<<"e">>, Unset, Unset, EHtml, NoData)
BadName == MkPage(NameSlash, Unset, Unset, Unset, NoData)
BadFilename == MkPage(<<"x">>, <<"/", "x">> \o DotHtml, Unset, Unset, NoData)
BadEntry == MkPage(<<"x">>, Unset, RelEntry, Unset, NoData)

ValidPages == {PlainA, FullA, PageB, PagePlus}
InvalidPages == {BadName, BadFilename, BadEntry}

\* the sequences over S of length at most n
SeqsUpTo(S, n) == UNION {[1..k -> S] : k \in 0..n}

\* the sequences over S of length at most n without a repeated element
DistinctSeqsUpTo(S, n) ==
  {q \in SeqsUpTo(S, n) : \A i, j \in 1..Len(q) : q[i] = q[j] => i = j}

\* the scanned directory and what readdirSync/statSync say of it
ScanDir == <<"d">>
DirEntries ==
  { [name |-> NameA, isDirectory |-> TRUE],
    [name |-> NameB, isDirectory |-> TRUE],
    [name |-> <<"f">>, isDirectory |-> FALSE] }
FsStates ==
  {[exists |-> FALSE, entries |-> <<>>]}
    \cup {[exists |-> TRUE, entries |-> q] : q \in DistinctSeqsUpTo(DirEntries, MaxListing)}

\* scanOptions.filename: not given, or a function of the directory name
FilenameFn(kind, name) ==
  IF kind = "rooted" THEN Slash \o name \o DotHtml
  ELSE Unset

NoScan == [scanDirs |-> <<>>, entryFile |-> Unset, filename |-> "none"]
ScanWithEntry == [scanDirs |-> <<ScanDir>>, entryFile |-> <<"m">>, filename |-> "none"]
ScanRooted == [scanDirs |-> <<ScanDir>>, entryFile |-> Unset, filename |-> "rooted"]
ScanOptionsSet == {NoScan, ScanWithEntry, ScanRooted}

(***************************************************************************)
(* Objects used as maps: inputMap keeps its keys in insertion order        *)
(* (Object.keys), virtualPageMap is a function of the served path.         *)
(***************************************************************************)
Keys(m) == [i \in 1..Len(m) |-> m[i].k]
Has(m, key) == \E i \in 1..Len(m) : m[i].k = key
Get(m, key) == m[CHOOSE i \in 1..Len(m) : m[i].k = key].v
Put(f, key, val) == [x \in DOMAIN f \cup {key} |-> IF x = key THEN val ELSE f[x]]
EmptyMap == <<>>

(***************************************************************************)
(* scanPages and configInit.                                               *)
(***************************************************************************)
RECURSIVE ScanEntries(_, _, _)
\* the inner loop of scanPages over readdirSync(entryDir)
ScanEntries(entryDir, entries, opts) ==
  IF entries = <<>> THEN <<>>
  ELSE LET e == Head(entries)
           dir == PathJoin(entryDir, e.name)
           rest == ScanEntries(entryDir, Tail(entries), opts)
       IN  IF ~e.isDirectory THEN rest
           ELSE << MkPage(e.name,
                          FilenameFn(opts.filename, e.name),
                          IF Truthy(opts.entryFile)
                            THEN PathJoin(Slash, dir \o Slash \o opts.entryFile)
                            ELSE Unset,
                          Unset, NoData) >> \o rest

\* scanPages(scanOptions) on the file system fs; readdirSync throws on a
\* directory that does not exist
scanPages(opts, fs) ==
  IF opts.scanDirs = <<>> THEN [ok |-> TRUE, pages |-> <<>>]
  ELSE IF ~fs.exists THEN [ok |-> FALSE, pages |-> <<>>]
  ELSE [ok |-> TRUE, pages |-> ScanEntries(opts.scanDirs[1], fs.entries, opts)]

\* page.filename || `${page.name}.html`
EntryPathOf(page) ==
  IF Truthy(page.filename) THEN page.filename ELSE page.name \o DotHtml

\* what throwError throws
throwError == "ConfigurationError"

\* PageDefect without the check of the entry
PageDefect_NoEntryCheck(page) ==
  \/ StartsWith((IF Truthy(page.filename) THEN page.filename ELSE page.name \o DotHtml), Slash)
  \/ Includes(page.name, "/")

\* the three checks of configInit that end in throwError
PageDefect(page) ==
  \/ StartsWith(EntryPathOf(page), Slash)
  \/ Includes(page.name, "/")
  \/ Truthy(page.entry) /\ ~StartsWith(page.entry, Slash)

\* if (tempInputMap[page.name]) continue
AlreadyRegistered(tempInputMap, page) == Has(tempInputMap, page.name)

\* one pass of the loop body for a page that is registered
RegisterPage(acc, page) ==
  [ ok |-> TRUE,
    inputMap |-> Append(acc.inputMap, [k |-> page.name, v |-> EntryPathOf(page)]),
    virtualPageMap |-> Put(acc.virtualPageMap, EntryPathOf(page), page),
    tplSet |-> IF Truthy(page.template) THEN acc.tplSet \cup {page.template}
               ELSE acc.tplSet ]

RECURSIVE BuildLoop(_, _)
\* for (const page of [...pages, ...scanPages(scanOptions)])
BuildLoop(list, acc) ==
  IF list = <<>> THEN acc
  ELSE LET page == Head(list) IN
       IF PageDefect(page) THEN [acc EXCEPT !.ok = FALSE]
       ELSE IF AlreadyRegistered(acc.inputMap, page) THEN BuildLoop(Tail(list), acc)
       ELSE BuildLoop(Tail(list), RegisterPage(acc, page))

\* the temporary maps of a build that starts
FreshTable(tpl) ==
  [ok |-> TRUE, inputMap |-> <<>>, virtualPageMap |-> EmptyMap, tplSet |-> {tpl}]

\* configInit(pages): the outcome and, when it returns, the maps it publishes
configInit(explicit, opts, fs, tpl) ==
  LET scanned == scanPages(opts, fs) IN
  IF ~scanned.ok
    THEN [kind |-> "DiscoveryError", scanned |-> <<>>, table |-> FreshTable(tpl)]
  ELSE LET list == explicit \o scanned.pages
           built == BuildLoop(list, FreshTable(tpl))
       IN  [ kind |-> IF built.ok THEN "ok" ELSE throwError,
             scanned |-> scanned.pages,
             table |-> built ]


(***************************************************************************)
(* Template files and rendering.                                           *)
(***************************************************************************)
Tok(kind, text) == [k |-> kind, v |-> text]
Text(t) == Tok("text", t)
\* the text bodyInject = /<\/body>/ matches
bodyInject == Tok("</body>", <<>>)
\* an ejs output tag <%= name %>
Var(name) == Tok("<%=", name)
\* <script type="module" src="..."></script>
ScriptTag(src) == Tok("<script type=module src=", src)
Newline == Text(<<"\n">>)

TemplateFiles == {DefaultTemplate, THtml, TEjs, MEjs, EHtml}

\* fs.readFileSync(path, 'utf-8') of the template files on disk
readFileSync(path) ==
  IF path = DefaultTemplate THEN <<Text(<<"h">>), bodyInject, Text(<<"z">>)>>
  ELSE IF path = THtml
    THEN <<Text(<<"h">>), Var(<<"x">>), bodyInject, Text(<<"m">>), bodyInject>>
  ELSE IF path = TEjs THEN <<Text(<<"h">>)>>
  ELSE IF path = EHtml THEN <<>>
  ELSE <<Var(<<"x">>), bodyInject>>

RECURSIVE ReplaceFirst(_, _, _)
\* content.replace(tok, replacement): the first occurrence only
ReplaceFirst(content, tok, replacement) ==
  IF content = <<>> THEN <<>>
  ELSE IF Head(content) = tok THEN replacement \o Tail(content)
  ELSE <<Head(content)>> \o ReplaceFirst(Tail(content), tok, replacement)

\* { ...resolvedConfig.env, ...page.data }[name]
ScopeValue(env, data, name) ==
  IF Has(data, name) THEN Get(data, name)
  ELSE IF Has(env, name) THEN Get(env, name)
  ELSE <<>>

\* ejs.render(content, scope): every output tag becomes the value of its variable
ejsRender(content, env, data) ==
  [i \in 1..Len(content) |->
     IF content[i].k = "<%=" THEN Text(ScopeValue(env, data, content[i].v))
     ELSE content[i]]

\* the first argument of ejs.render in transform
InjectEntry(fileContent, page) ==
  IF ~Truthy(page.entry) THEN fileContent
  ELSE ReplaceFirst(fileContent, bodyInject,
                    <<ScriptTag(normalizePath(page.entry)), Newline, bodyInject>>)

\* transform injecting a script tag whether or not the page has an entry
transform_InjectAlways(fileContent, id, vpm, env) ==
  IF id \notin DOMAIN vpm THEN [isNull |-> TRUE, code |-> <<>>]
  ELSE [ isNull |-> FALSE,
         code |-> ejsRender(
                    ReplaceFirst(fileContent, bodyInject,
                      <<ScriptTag(normalizePath(vpm[id].entry)), Newline, bodyInject>>),
                    env, vpm[id].data) ]

\* transform(fileContent, id): null when id is no served path of the table
transform(fileContent, id, vpm, env) ==
  IF id \notin DOMAIN vpm THEN [isNull |-> TRUE, code |-> <<>>]
  ELSE [ isNull |-> FALSE,
         code |-> ejsRender(InjectEntry(fileContent, vpm[id]), env, vpm[id].data) ]

\* the load hook: null when id is no served path, else the page's template
load(id, vpm, tpl) ==
  IF id \notin DOMAIN vpm THEN [isNull |-> TRUE, code |-> <<>>]
  ELSE [ isNull |-> FALSE,
         code |-> readFileSync(IF Truthy(vpm[id].template) THEN vpm[id].template ELSE tpl) ]

\* server.transformIndexHtml: the host adds its own client script to the page
transformIndexHtml(html) == <<Tok("<script src=/@vite/client>", <<>>)>> \o html


(***************************************************************************)
(* Requests.                                                               *)
(***************************************************************************)
RECURSIVE UrlPathname(_)
\* nodeUrl.parse(originalUrl).pathname: what precedes the query and the hash
UrlPathname(u) ==
  IF u = <<>> \/ Head(u) \in {"?", "#"} THEN <<>>
  ELSE <<Head(u)>> \o UrlPathname(Tail(u))

\* /.*(text\/html|application\/xhtml\+xml).*/.test(accept), accept being the
\* list of media ranges of the header
AcceptsHtml(accept) ==
  \E i \in 1..Len(accept) : accept[i] \in {"text/html", "application/xhtml+xml"}

\* item.from.test(pathname) for a pattern without anchors
RegExpTest(source, s) == \E start \in 1..(Len(s) + 1) : FragEnds(source, 1, s, start) # <<>>

\* FindRewrite taking the last rule that matches
FindRewrite_Last(rules, pathname) ==
  IF \E i \in 1..Len(rules) : RegExpTest(rules[i].from, pathname)
    THEN CHOOSE i \in 1..Len(rules) :
           /\ RegExpTest(rules[i].from, pathname)
           /\ \A j \in (i + 1)..Len(rules) : ~RegExpTest(rules[j].from, pathname)
  ELSE 0

\* rewrites.find(item => item.from.test(pathname)): its index, 0 when none
FindRewrite(rules, pathname) ==
  IF \E i \in 1..Len(rules) : RegExpTest(rules[i].from, pathname)
    THEN CHOOSE i \in 1..Len(rules) :
           /\ RegExpTest(rules[i].from, pathname)
           /\ \A j \in 1..(i - 1) : ~RegExpTest(rules[j].from, pathname)
  ELSE 0

\* evaluateRewriteRule(parsedUrl, match, rule.to): a function is called with
\* the parsed url, a string is the target
evaluateRewriteRule(pathname, rule) ==
  IF rule.toIsFunction THEN rule.to \o pathname ELSE rule.to

\* ResolveRoute taking the default served path of a captured name that is not a key of inputMap
ResolveRoute_TrustPattern(pathname, reg, imap) ==
  LET m == RegMatch(reg, pathname) IN
  IF m.matched /\ Truthy(m.group1)
    THEN IF Has(imap, m.group1) THEN Get(imap, m.group1) ELSE m.group1 \o DotHtml
  ELSE Unset

\* lines 279-280: the served path of the page the pathname names, Unset for none
ResolveRoute(pathname, reg, imap) ==
  LET m == RegMatch(reg, pathname) IN
  IF m.matched /\ Truthy(m.group1) /\ Has(imap, m.group1)
    THEN Get(imap, m.group1)
  ELSE Unset

NoReq ==
  [ pc |-> "idle", method |-> "", accept |-> <<>>, originalUrl |-> <<>>,
    url |-> <<>>, nextCalled |-> FALSE, resLog |-> <<>>, body |-> <<>>,
    fileName |-> <<>>, page |-> <<>>, loadResult |-> <<>>, html |-> <<>>,
    evaluated |-> {} ]

\* return next()
PassOn(r) == [r EXCEPT !.pc = "passed", !.nextCalled = TRUE]

\* lines 239-246: the method and the accept header make the request eligible
Eligible_AnyMethod(method, accept, originalUrl) ==
  /\ Truthy(accept)
  /\ Truthy(originalUrl)
  /\ AcceptsHtml(accept)

Eligible(method, accept, originalUrl) ==
  /\ method \in {"GET", "HEAD"}
  /\ Truthy(accept)
  /\ Truthy(originalUrl)
  /\ AcceptsHtml(accept)

\* lines 261-275: the url becomes the target of the rule and the request is passed on
CustomRewrite(r0, pathname, rule) ==
  PassOn([r0 EXCEPT !.url = evaluateRewriteRule(pathname, rule),
                    !.evaluated = {"rewrites"}])

\* lines 279-302: the virtual page of the pathname, up to the call of load
VirtualRoute(r0, pathname, rules, reg, imap, vpm) ==
  LET fileName == ResolveRoute(pathname, reg, imap)
      r1 == [r0 EXCEPT !.evaluated =
               (IF Len(rules) > 0 THEN {"rewrites"} ELSE {}) \cup {"route"}]
  IN  IF ~Truthy(fileName) THEN PassOn(r1)
      ELSE [r1 EXCEPT !.pc = "loading",
                      !.fileName = fileName,
                      !.page = IF fileName \in DOMAIN vpm THEN <<vpm[fileName]>> ELSE <<>>,
                      !.resLog = <<"setHeader Content-Type text/html",
                                   "statusCode 200">>]

\* Dispatch with the virtual route tried before the custom rewrites
Dispatch_RouteFirst(r0, pathname, rules, reg, imap, vpm) ==
  IF Truthy(ResolveRoute(pathname, reg, imap))
    THEN VirtualRoute(r0, pathname, rules, reg, imap, vpm)
  ELSE IF Len(rules) > 0 /\ FindRewrite(rules, pathname) # 0
    THEN CustomRewrite(r0, pathname, rules[FindRewrite(rules, pathname)])
  ELSE VirtualRoute(r0, pathname, rules, reg, imap, vpm)

\* lines 255-284: the custom rewrites, then the virtual route
Dispatch(r0, pathname, rules, reg, imap, vpm) ==
  IF Len(rules) > 0 /\ FindRewrite(rules, pathname) # 0
    THEN CustomRewrite(r0, pathname, rules[FindRewrite(rules, pathname)])
  ELSE VirtualRoute(r0, pathname, rules, reg, imap, vpm)

\* the middleware of configureServer, from its entry to its first await or return
HandleRequest(method, accept, originalUrl, rules, reg, imap, vpm) ==
  LET r0 == [NoReq EXCEPT !.method = method, !.accept = accept,
                          !.originalUrl = originalUrl, !.url = originalUrl]
      pathname == UrlPathname(originalUrl)
  IN
  IF ~Eligible(method, accept, originalUrl) THEN PassOn(r0)
  ELSE IF ~Truthy(pathname) THEN PassOn(r0)
  ELSE Dispatch(r0, pathname, rules, reg, imap, vpm)

(***************************************************************************)
(* The plugin's state.                                                     *)
(***************************************************************************)
VARIABLES
  pages,           \* option pages: the explicit page list
  template,        \* option template, 'index.html' when not given
  rewrites,        \* option rewrites
  scanOptions,     \* option scanOptions
  userBase,        \* config.base of the user configuration given to config()
  resolvedConfig,  \* set by configResolved
  inputMap,        \* page name -> served path
  virtualPageMap,  \* served path -> page
  tplSet,          \* the template set
  rewriteReg,      \* the composite route pattern
  phase,           \* how far the host has taken the plugin's hooks
  reloads,         \* reloadPages calls so far
  event,           \* the last table build or watcher event and what it did
  req,             \* the request being handled, or the last one handled
  rendered         \* the last direct call of the transform hook

vars ==
  << pages, template, rewrites, scanOptions, userBase, resolvedConfig, inputMap,
     virtualPageMap, tplSet, rewriteReg, phase, reloads, event, req, rendered >>

options == <<pages, template, rewrites, scanOptions, userBase>>
table == <<inputMap, virtualPageMap, tplSet>>

\* config.base: given by the user or left undefined
BaseNotGiven == [given |-> FALSE, value |-> <<>>]
BaseRoot == [given |-> TRUE, value |-> Slash]
BaseApp == [given |-> TRUE, value |-> <<"/", "a", "p", "p", "/">>]
Bases == {BaseNotGiven, BaseRoot, BaseApp}

\* `${config.base}` in a template literal
BaseText(b) == IF b.given THEN b.value ELSE Undefined

\* the base of the resolved configuration: the host's default is '/'
ResolvedBase(b) == IF b.given THEN b.value ELSE Slash

Root == <<"/", "r">>
Env == <<[k |-> <<"x">>, v |-> <<"e">>]>>

RuleA == [from |-> <<"/", "a">>, to |-> <<"/", "r">>, toIsFunction |-> FALSE]
RewriteOptions == {<<>>, <<RuleA>>}

AllPageLists == SeqsUpTo(ValidPages \cup InvalidPages, MaxPages)
ValidPageLists == SeqsUpTo(ValidPages, MaxPages)
\* the page lists of the dev-server runs
ServedPageLists == SeqsUpTo({FullA, PageB, PagePlus}, MaxPages)

NoEvent ==
  [ kind |-> "none", outcome |-> "", explicit |-> <<>>, scanned |-> <<>>,
    file |-> <<>>, ws |-> <<>> ]
NoRender == [id |-> <<>>, content |-> <<>>, isNull |-> TRUE, code |-> <<>>]
NoReg == [defined |-> FALSE, prefix |-> <<>>, group |-> <<>>]
Unresolved == [resolved |-> FALSE, base |-> <<>>, root |-> <<>>, env |-> <<>>]

\* the state createMpaPlugin(config) returns in
InitWith(pageLists, templates, rewriteLists, scans, bases) ==
  /\ pages \in pageLists
  /\ template \in templates
  /\ rewrites \in rewriteLists
  /\ scanOptions \in scans
  /\ userBase \in bases
  /\ resolvedConfig = Unresolved
  /\ inputMap = <<>>
  /\ virtualPageMap = EmptyMap
  /\ tplSet = {}
  /\ rewriteReg = NoReg
  /\ phase = "created"
  /\ reloads = 0
  /\ event = NoEvent
  /\ req = NoReq
  /\ rendered = NoRender

\* what the file system may hold when the directories are scanned
FsInputs(opts) == IF opts.scanDirs = <<>> THEN {[exists |-> FALSE, entries |-> <<>>]} ELSE FsStates

BuildEvent(kind, r, explicit) ==
  [ kind |-> kind, outcome |-> r.kind, explicit |-> explicit, scanned |-> r.scanned,
    file |-> <<>>, ws |-> <<>> ]

\* lines 68-70: the new maps replace the old
Publish(r) ==
  /\ inputMap' = r.table.inputMap
  /\ virtualPageMap' = r.table.virtualPageMap
  /\ tplSet' = r.table.tplSet

\* new RegExp(...) of the config hook
BuildRewriteReg(base, imap) ==
  [ defined |-> TRUE,
    prefix |-> normalizePath(Slash \o BaseText(base) \o Slash),
    group |-> JoinBar(Keys(imap)) ]

\* the config hook: configInit(pages), then the route pattern
Config ==
  /\ phase = "created"
  /\ \E fs \in FsInputs(scanOptions) :
       LET r == configInit(pages, scanOptions, fs, template) IN
       /\ event' = BuildEvent("config", r, pages)
       /\ IF r.kind = "ok"
            THEN /\ Publish(r)
                 /\ rewriteReg' = BuildRewriteReg(userBase, r.table.inputMap)
                 /\ phase' = "configured"
            ELSE /\ UNCHANGED <<table, rewriteReg>>
                 /\ phase' = "aborted"
  /\ UNCHANGED <<options, resolvedConfig, reloads, req, rendered>>

\* the configResolved hook
ConfigResolved ==
  /\ phase = "configured"
  /\ resolvedConfig' =
       [resolved |-> TRUE, base |-> ResolvedBase(userBase), root |-> Root, env |-> Env]
  /\ phase' = "resolved"
  /\ UNCHANGED <<options, table, rewriteReg, reloads, event, req, rendered>>

\* the configureServer hook: the watchers and the middleware are installed
ConfigureServer ==
  /\ phase = "resolved"
  /\ phase' = "serving"
  /\ UNCHANGED <<options, resolvedConfig, table, rewriteReg, reloads, event, req, rendered>>

\* ReloadPages telling the connected clients to reload once the table is published
ReloadPages_Notify(pageLists) ==
  /\ phase = "serving"
  /\ event.kind = "none"
  /\ reloads < MaxReloads
  /\ \E newPages \in pageLists, fs \in FsInputs(scanOptions) :
       LET r == configInit(newPages, scanOptions, fs, template) IN
       /\ event' = [BuildEvent("reload", r, newPages) EXCEPT
                      !.ws = IF r.kind = "ok" THEN <<[type |-> "full-reload", path |-> "*"]>>
                             ELSE <<>>]
       /\ IF r.kind = "ok" THEN Publish(r) ELSE UNCHANGED table
  /\ reloads' = reloads + 1
  /\ UNCHANGED <<options, resolvedConfig, rewriteReg, phase, req, rendered>>

\* ReloadPages publishing the temporary maps of a build that threw as well
ReloadPages_PublishAlways(pageLists) ==
  /\ phase = "serving"
  /\ event.kind = "none"
  /\ reloads < MaxReloads
  /\ \E newPages \in pageLists, fs \in FsInputs(scanOptions) :
       LET r == configInit(newPages, scanOptions, fs, template) IN
       /\ event' = BuildEvent("reload", r, newPages)
       /\ Publish(r)
  /\ reloads' = reloads + 1
  /\ UNCHANGED <<options, resolvedConfig, rewriteReg, phase, req, rendered>>

\* the watcher's 'all' handler calls the user's handler, which calls
\* reloadPages(newPages), that is configInit(newPages)
ReloadPages(pageLists) ==
  /\ phase = "serving"
  /\ event.kind = "none"
  /\ reloads < MaxReloads
  /\ \E newPages \in pageLists, fs \in FsInputs(scanOptions) :
       LET r == configInit(newPages, scanOptions, fs, template) IN
       /\ event' = BuildEvent("reload", r, newPages)
       /\ IF r.kind = "ok" THEN Publish(r) ELSE UNCHANGED table
  /\ reloads' = reloads + 1
  /\ UNCHANGED <<options, resolvedConfig, rewriteReg, phase, req, rendered>>

\* path.relative(resolvedConfig.root, file) for an absolute file
PathRelative(root, file) ==
  IF StartsWith(file, root \o Slash) THEN SubSeq(file, Len(root) + 2, Len(file))
  ELSE <<".", ".">> \o file

FullReload == [type |-> "full-reload", path |-> "*"]

WatchedFiles ==
  {Root \o Slash \o f : f \in TemplateFiles \cup {<<"o">> \o DotHtml}}
    \cup {Slash \o DefaultTemplate}

\* the watcher's 'change' handler
WatchChange ==
  /\ phase = "serving"
  /\ event.kind = "none"
  /\ \E file \in WatchedFiles :
       event' =
         [ kind |-> "change", outcome |-> "", explicit |-> <<>>, scanned |-> <<>>,
           file |-> file,
           ws |-> IF /\ EndsWith(file, DotHtml)
                     /\ PathRelative(resolvedConfig.root, file) \in tplSet
                    THEN <<FullReload>> ELSE <<>> ]
  /\ UNCHANGED <<options, resolvedConfig, table, rewriteReg, phase, reloads, req, rendered>>

\* the hook or watcher handler has returned
EventDone ==
  /\ event.kind # "none"
  /\ event' = NoEvent
  /\ UNCHANGED <<options, resolvedConfig, table, rewriteReg, phase, reloads, req, rendered>>

\* method and accept header of the requests
RequestHeads ==
  { [method |-> "GET", accept |-> <<"text/html">>],
    [method |-> "HEAD", accept |-> <<"application/xhtml+xml">>],
    [method |-> "POST", accept |-> <<"text/html">>],
    [method |-> "GET", accept |-> <<"application/json">>],
    [method |-> "GET", accept |-> <<>>] }
Urls ==
  { <<"/", "a">>, <<"/", "a">> \o DotHtml, <<"/", "a", "?", "x">>, <<"/", "b">>,
    <<"/", "a", "+", "b">>, <<"/", "z">>, <<"/", "x", "/", "a">>,
    <<"/", "a", "/", "z">>, <<"/", "a", "p", "p", "/", "a">>, <<>> }

\* a request with one of the heads for one of the urls reaches the middleware
RequestFrom(heads, urls) ==
  /\ phase = "serving"
  /\ req.pc = "idle"
  /\ \E head \in heads, originalUrl \in urls :
       req' = HandleRequest(head.method, head.accept, originalUrl, rewrites,
                            rewriteReg, inputMap, virtualPageMap)
  /\ UNCHANGED <<options, resolvedConfig, table, rewriteReg, phase, reloads, event, rendered>>

\* a request reaches the middleware
RequestArrives == RequestFrom(RequestHeads, Urls)

\* LoadFile taking an empty content for a loaded one
LoadFile_BlankPage ==
  /\ req.pc = "loading"
  /\ LET l == load(req.fileName, virtualPageMap, template) IN
     req' = IF l.isNull THEN [req EXCEPT !.pc = "failed"]
            ELSE [req EXCEPT !.pc = "loaded", !.loadResult = l.code,
                             !.page = Append(req.page, virtualPageMap[req.fileName])]
  /\ UNCHANGED <<options, resolvedConfig, table, rewriteReg, phase, reloads, event, rendered>>

\* await pluginContainer.load(fileName): the load hook runs; a null or empty
\* result is falsy and the handler throws.
\* req.page keeps the page each step read from virtualPageMap: the one of the
\* resolved served path, then the one load read, then the one transform read.
LoadFile ==
  /\ req.pc = "loading"
  /\ LET l == load(req.fileName, virtualPageMap, template) IN
     req' = IF l.isNull \/ ~Truthy(l.code) THEN [req EXCEPT !.pc = "failed"]
            ELSE [req EXCEPT !.pc = "loaded", !.loadResult = l.code,
                             !.page = Append(req.page, virtualPageMap[req.fileName])]
  /\ UNCHANGED <<options, resolvedConfig, table, rewriteReg, phase, reloads, event, rendered>>

\* the handler resumes: transform(loadResult, fileName) ?? loadResult is
\* handed to transformIndexHtml
RenderFile ==
  /\ req.pc = "loaded"
  /\ LET t == transform(req.loadResult, req.fileName, virtualPageMap, resolvedConfig.env) IN
     req' = [req EXCEPT !.pc = "postprocessing",
                        !.html = IF t.isNull THEN req.loadResult ELSE t.code,
                        !.page = IF t.isNull THEN req.page
                                 ELSE Append(req.page, virtualPageMap[req.fileName])]
  /\ UNCHANGED <<options, resolvedConfig, table, rewriteReg, phase, reloads, event, rendered>>

\* res.end(await transformIndexHtml(...))
EndResponse ==
  /\ req.pc = "postprocessing"
  /\ req' = [req EXCEPT !.pc = "ended",
                        !.body = transformIndexHtml(req.html),
                        !.resLog = Append(req.resLog, "end")]
  /\ UNCHANGED <<options, resolvedConfig, table, rewriteReg, phase, reloads, event, rendered>>

\* the request is over (passed on, answered or failed) and its objects are released
RequestDone ==
  /\ req.pc \in {"passed", "ended", "failed"}
  /\ req' = NoReq
  /\ UNCHANGED <<options, resolvedConfig, table, rewriteReg, phase, reloads, event, rendered>>

Contents == {readFileSync(f) : f \in TemplateFiles} \cup {<<>>}
Ids == {n \o DotHtml : n \in {NameA, NameB, NamePlus, <<"z">>}}

\* the host calls the transform hook on a module
Transform ==
  /\ phase \in {"resolved", "serving"}
  /\ \E id \in Ids, fileContent \in Contents :
       LET t == transform(fileContent, id, virtualPageMap, resolvedConfig.env) IN
       rendered' = [id |-> id, content |-> fileContent, isNull |-> t.isNull, code |-> t.code]
  /\ UNCHANGED <<options, resolvedConfig, table, rewriteReg, phase, reloads, event, req>>

(***************************************************************************)
(* Specifications.                                                         *)
(***************************************************************************)
\* the dev server: requests against the table, reloadPages in between
Init == InitWith(ServedPageLists, {DefaultTemplate}, RewriteOptions, {NoScan}, Bases)

Next ==
  \/ Config
  \/ ConfigResolved
  \/ ConfigureServer
  \/ ReloadPages(ServedPageLists)
  \/ EventDone
  \/ RequestArrives
  \/ LoadFile
  \/ RenderFile
  \/ EndResponse
  \/ RequestDone

Spec == Init /\ [][Next]_vars

\* the dev server on the table built at startup: requests only
NextRequests ==
  \/ Config
  \/ ConfigResolved
  \/ ConfigureServer
  \/ EventDone
  \/ RequestArrives
  \/ LoadFile
  \/ RenderFile
  \/ EndResponse
  \/ RequestDone

SpecRequests == Init /\ [][NextRequests]_vars

\* startup alone: the first table build over every page list and scan
InitStartup ==
  InitWith(AllPageLists, {DefaultTemplate}, {<<>>}, ScanOptionsSet, {BaseRoot})

NextStartup ==
  \/ Config
  \/ ConfigResolved
  \/ ConfigureServer
  \/ EventDone

SpecStartup == InitStartup /\ [][NextStartup]_vars

\* the table and the watcher: builds, rebuilds and template changes
InitTable ==
  InitWith(AllPageLists, {DefaultTemplate, MEjs}, {<<>>}, ScanOptionsSet, {BaseRoot})

NextTable ==
  \/ Config
  \/ ConfigResolved
  \/ ConfigureServer
  \/ ReloadPages(AllPageLists)
  \/ EventDone
  \/ WatchChange

SpecTable == InitTable /\ [][NextTable]_vars

\* the transform hook over every table, id and content
InitRender ==
  InitWith(ValidPageLists, {DefaultTemplate}, {<<>>}, {NoScan}, {BaseRoot})

NextRender ==
  \/ Config
  \/ ConfigResolved
  \/ ConfigureServer
  \/ EventDone
  \/ Transform

SpecRender == InitRender /\ [][NextRender]_vars

\* rebuilds of a served table: page lists that build and page lists that throw
RebuildStartLists == {<<PlainA>>, <<FullA, PageB>>, <<PlainA, BadEntry>>}
ReloadLists == SeqsUpTo({PageB, PagePlus, BadEntry, BadName}, MaxPages)

InitRebuild ==
  InitWith(RebuildStartLists, {DefaultTemplate}, {<<>>}, {NoScan, ScanWithEntry}, {BaseRoot})

NextRebuild ==
  \/ Config
  \/ ConfigResolved
  \/ ConfigureServer
  \/ ReloadPages(ReloadLists)
  \/ EventDone

SpecRebuild == InitRebuild /\ [][NextRebuild]_vars

\* the dev server while the page set is reconciled: page requests between
\* and during rebuilds
ReconcileStartLists == {<<FullA, PageB>>, <<PageB>>}
PageRequestHeads ==
  { [method |-> "GET", accept |-> <<"text/html">>],
    [method |-> "POST", accept |-> <<"text/html">>] }
PageUrls == {<<"/", "a">>, <<"/", "b">>, <<"/", "b">> \o DotHtml, <<"/", "z">>}
PageRequest == RequestFrom(PageRequestHeads, PageUrls)

InitReconcile ==
  InitWith(ReconcileStartLists, {DefaultTemplate}, RewriteOptions, {NoScan}, {BaseRoot})

NextReconcile ==
  \/ Config
  \/ ConfigResolved
  \/ ConfigureServer
  \/ ReloadPages(ReloadLists)
  \/ EventDone
  \/ PageRequest
  \/ LoadFile
  \/ RenderFile
  \/ EndResponse
  \/ RequestDone

SpecReconcile == InitReconcile /\ [][NextReconcile]_vars

\* the dev server under lists of custom rewrite rules: a rule for any
\* one-segment path whose target another rule matches, and a rule whose target
\* is a function
RuleAny == [from |-> <<"/", ".">>, to |-> <<"/", "a">>, toIsFunction |-> FALSE]
RuleFn == [from |-> <<"/", "z">>, to |-> <<"/", "f">>, toIsFunction |-> TRUE]
RuleLists == SeqsUpTo({RuleA, RuleAny, RuleFn}, MaxRules)

InitRewrites == InitWith({<<FullA>>}, {DefaultTemplate}, RuleLists, {NoScan}, {BaseRoot})

NextRewrites ==
  \/ Config
  \/ ConfigResolved
  \/ ConfigureServer
  \/ EventDone
  \/ RequestArrives
  \/ LoadFile
  \/ RenderFile
  \/ EndResponse
  \/ RequestDone

SpecRewrites == InitRewrites /\ [][NextRewrites]_vars

\* the dev server over pages whose template file is empty
LoadPageLists == SeqsUpTo({PageE, FullA}, MaxPages)
LoadUrls == {<<"/", "e">>, <<"/", "e">> \o DotHtml, <<"/", "a">>, <<"/", "z">>}
LoadRequest == RequestFrom(RequestHeads, LoadUrls)

InitLoad == InitWith(LoadPageLists, {DefaultTemplate, EHtml}, {<<>>}, {NoScan}, {BaseRoot})

NextLoad ==
  \/ Config
  \/ ConfigResolved
  \/ ConfigureServer
  \/ EventDone
  \/ LoadRequest
  \/ LoadFile
  \/ RenderFile
  \/ EndResponse
  \/ RequestDone

SpecLoad == InitLoad /\ [][NextLoad]_vars

(***************************************************************************)
(* Properties.                                                             *)
(***************************************************************************)
BuildHappened == event.kind \in {"config", "reload"}
BuiltList == event.explicit \o event.scanned
FirstOfItsName(list, i) == \A j \in 1..(i - 1) : list[j].name # list[i].name
ServedPathOf(p) == IF p.filename # <<>> THEN p.filename ELSE p.name \o DotHtml

\* C1: after every table build that returns, the first page of each name in
\* explicit ++ discovered is the registered one, under byName and under its
\* served path; in particular an explicit page wins over a discovered page of
\* its name, whatever the order of the directory listing.
C1_DedupPriority ==
  (BuildHappened /\ event.outcome = "ok") =>
    /\ \A i \in 1..Len(event.explicit) :
         ( /\ FirstOfItsName(event.explicit, i)
           /\ \E j \in 1..Len(event.scanned) :
                event.scanned[j].name = event.explicit[i].name )
         => /\ Has(inputMap, event.explicit[i].name)
            /\ Get(inputMap, event.explicit[i].name) = ServedPathOf(event.explicit[i])
            /\ virtualPageMap[ServedPathOf(event.explicit[i])] = event.explicit[i]
    /\ \A i \in 1..Len(BuiltList) :
         FirstOfItsName(BuiltList, i)
         => /\ Has(inputMap, BuiltList[i].name)
            /\ Get(inputMap, BuiltList[i].name) = ServedPathOf(BuiltList[i])
            /\ virtualPageMap[ServedPathOf(BuiltList[i])] = BuiltList[i]

\* the defects the validation of a page names
ServedPathIsRooted(p) == Head(ServedPathOf(p)) = "/"
NameHasSeparator(p) == \E i \in 1..Len(p.name) : p.name[i] = "/"
EntryIsRelative(p) == p.entry # <<>> /\ Head(p.entry) # "/"
Defective(p) == ServedPathIsRooted(p) \/ NameHasSeparator(p) \/ EntryIsRelative(p)

\* C8: a table build over the page list explicit ++ discovered fails with a
\* configuration error exactly when some page of the list has a served path
\* beginning with '/', a name containing '/', or an entry not beginning with
\* '/'; a failed startup build aborts and registers nothing.
C8_ValidationRejection ==
  (BuildHappened /\ event.outcome # "DiscoveryError") =>
    /\ event.outcome = "ConfigurationError"
         <=> \E i \in 1..Len(BuiltList) : Defective(BuiltList[i])
    /\ event.outcome \in {"ok", "ConfigurationError"}
    /\ (event.kind = "config" /\ event.outcome = "ConfigurationError")
         => (phase = "aborted" /\ inputMap = <<>> /\ virtualPageMap = EmptyMap)
    /\ (event.kind = "config" /\ event.outcome = "ok") => phase # "aborted"

\* C8 witness: a build fails although every explicit page is sound, because a
\* discovered page has a rooted served path.
C8_Witness ==
  /\ event.kind = "config"
  /\ event.outcome = "ConfigurationError"
  /\ event.explicit # <<>>
  /\ \A i \in 1..Len(event.explicit) : ~Defective(event.explicit[i])
  /\ \E j \in 1..Len(event.scanned) : ServedPathIsRooted(event.scanned[j])

\* C5: a change of a file outside the template set sends no full-reload; a
\* change of the default template or of a registered page's template always
\* sends one, whatever the file is called.
C5_TemplateReload ==
  event.kind = "change" =>
    LET file == PathRelative(Root, event.file) IN
    /\ file \notin tplSet => event.ws = <<>>
    /\ ( \/ file = template
         \/ \E f \in DOMAIN virtualPageMap : virtualPageMap[f].template = file )
       => event.ws = <<FullReload>>

\* what the served base makes of a page route: "/{base}/..."
UnderBase(rest) == normalizePath(Slash \o resolvedConfig.base \o Slash \o rest)
\* what the handler resolves a request url to
Resolves(url) == ResolveRoute(UrlPathname(url), rewriteReg, inputMap)
UnknownNames == {<<"z">>, <<"z", "z">>}

\* C2: while the server runs, for every registered name p with served path f
\* the urls /{base}/p, /{base}/p.html and /{base}/p?x=1 resolve to f, and
\* /{base}/unknown resolves to none.
C2_RoundTrip ==
  phase = "serving" =>
    /\ \A i \in 1..Len(inputMap) :
         LET p == inputMap[i].k
             f == inputMap[i].v
         IN  /\ Resolves(UnderBase(p)) = f
             /\ Resolves(UnderBase(p \o DotHtml)) = f
             /\ Resolves(UnderBase(p \o <<"?", "x", "=", "1">>)) = f
    /\ \A u \in UnknownNames : ~Has(inputMap, u) => Resolves(UnderBase(u)) = Unset

\* C3: the route pattern in use is the one derived from the current name set,
\* so that every name of the current table is resolved to its served path.
C3_PatternFollowsTable ==
  rewriteReg.defined =>
    /\ rewriteReg.group = JoinBar(Keys(inputMap))
    /\ \A i \in 1..Len(inputMap) :
         inputMap[i].k \in {NameA, NameB}
         => ResolveRoute(rewriteReg.prefix \o inputMap[i].k, rewriteReg, inputMap)
              = inputMap[i].v

RequestSeen == req.pc # "idle"
ReqPathname == UrlPathname(req.originalUrl)
ReqEligible ==
  /\ req.method \in {"GET", "HEAD"}
  /\ \E i \in 1..Len(req.accept) :
       req.accept[i] \in {"text/html", "application/xhtml+xml"}
  /\ ReqPathname # <<>>
ReqMatchesRule(i) == RegExpTest(rewrites[i].from, ReqPathname)

\* C4: an eligible request whose path matches a custom rewrite rule, also when
\* it names a registered page, gets the rule's target as its url and is passed
\* on; no route is resolved, nothing is loaded, rendered or written.
C4_RewritePrecedence ==
  (RequestSeen /\ ReqEligible /\ \E i \in 1..Len(rewrites) : ReqMatchesRule(i)) =>
    /\ req.pc = "passed"
    /\ req.nextCalled
    /\ \E i \in 1..Len(rewrites) :
         /\ ReqMatchesRule(i)
         /\ ~rewrites[i].toIsFunction => req.url = rewrites[i].to
    /\ "route" \notin req.evaluated
    /\ req.fileName = Unset
    /\ req.loadResult = <<>>
    /\ req.html = <<>>
    /\ req.resLog = <<>>
    /\ req.body = <<>>

\* C4 witness: a rewritten request whose path is also the route of a registered page
C4_Witness ==
  /\ RequestSeen
  /\ ReqEligible
  /\ \E i \in 1..Len(rewrites) : ReqMatchesRule(i)
  /\ ResolveRoute(ReqPathname, rewriteReg, inputMap) # Unset
  /\ req.pc = "passed"
  /\ req.url # req.originalUrl

\* C9: a request that is not GET or HEAD, or has no accept header, or whose
\* accept header names no html type, is passed on untouched, and neither the
\* rewrites nor the route are evaluated for it.
C9_IneligiblePassThrough ==
  ( /\ RequestSeen
    /\ \/ req.method \notin {"GET", "HEAD"}
       \/ req.accept = <<>>
       \/ \A i \in 1..Len(req.accept) :
            req.accept[i] \notin {"text/html", "application/xhtml+xml"} )
  => /\ req.pc = "passed"
     /\ req.nextCalled
     /\ req.url = req.originalUrl
     /\ req.resLog = <<>>
     /\ req.body = <<>>
     /\ req.evaluated = {}
     /\ req.fileName = Unset

\* C9 witness: a POST for the route of a registered page that a rewrite rule
\* matches too has been passed on
C9_Witness ==
  /\ RequestSeen
  /\ req.method = "POST"
  /\ req.accept = <<"text/html">>
  /\ ResolveRoute(ReqPathname, rewriteReg, inputMap) # Unset
  /\ \E i \in 1..Len(rewrites) : ReqMatchesRule(i)
  /\ req.pc = "passed"

\* the rendered template of a page: its template file with the entry injected
\* and the variables substituted
RenderedTemplate(page) ==
  ejsRender(
    InjectEntry(readFileSync(IF page.template # <<>> THEN page.template ELSE template), page),
    resolvedConfig.env, page.data)

\* C10: for a request resolved to a virtual route the content type and the
\* status are set before anything is written, and the body written is the
\* post-processed rendered template of the resolved page; for any other
\* request no header, status or body is set.
C10_HeadersThenBody ==
  RequestSeen =>
    /\ req.fileName # Unset =>
         /\ Len(req.resLog) >= 2
         /\ req.resLog[1] = "setHeader Content-Type text/html"
         /\ req.resLog[2] = "statusCode 200"
         /\ \A i \in 1..Len(req.resLog) : req.resLog[i] = "end" => i = 3
    /\ req.pc = "ended" =>
         /\ req.fileName # Unset
         /\ req.body = transformIndexHtml(RenderedTemplate(req.page[1]))
    /\ req.fileName = Unset => (req.resLog = <<>> /\ req.body = <<>>)

TransformCalled == rendered.id # <<>>
RenderedPage == virtualPageMap[rendered.id]
FirstBodyTag(content) ==
  IF \E i \in 1..Len(content) : content[i].k = "</body>"
    THEN CHOOSE i \in 1..Len(content) :
           /\ content[i].k = "</body>"
           /\ \A j \in 1..(i - 1) : content[j].k # "</body>"
  ELSE 0
IsEntryScript(tok, page) ==
  tok = [k |-> "<script type=module src=", v |-> normalizePath(page.entry)]

\* C6: rendering a page with an entry puts one module script for the
\* normalized entry right before the first closing body tag of the raw
\* template and keeps what is before and after it (up to the substitution of
\* variables); so the output of every page with an entry refers to its entry.
C6_InjectionCorrectness ==
  (TransformCalled /\ rendered.id \in DOMAIN virtualPageMap /\ RenderedPage.entry # <<>>) =>
    LET raw == rendered.content
        n == FirstBodyTag(raw)
    IN  /\ ~rendered.isNull
        /\ Cardinality({i \in 1..Len(rendered.code) :
                          IsEntryScript(rendered.code[i], RenderedPage)}) = 1
        /\ n # 0 =>
             /\ Len(rendered.code) = Len(raw) + 2
             /\ IsEntryScript(rendered.code[n], RenderedPage)
             /\ rendered.code[n + 2].k = "</body>"
             /\ SubSeq(rendered.code, 1, n - 1)
                  = ejsRender(SubSeq(raw, 1, n - 1), resolvedConfig.env, RenderedPage.data)
             /\ SubSeq(rendered.code, n + 2, Len(rendered.code))
                  = ejsRender(SubSeq(raw, n, Len(raw)), resolvedConfig.env, RenderedPage.data)

NoPlaceholders(content) == \A i \in 1..Len(content) : content[i].k # "<%="

\* what a call of transform returned, seen in the state it left
C7_SameAsSource ==
  TransformCalled =>
    /\ ( /\ rendered.id \in DOMAIN virtualPageMap
         /\ RenderedPage.entry = <<>>
         /\ NoPlaceholders(rendered.content) )
       => (~rendered.isNull /\ rendered.code = rendered.content)
    /\ LET again == transform(rendered.content, rendered.id, virtualPageMap,
                              resolvedConfig.env)
       IN  again.isNull = rendered.isNull /\ again.code = rendered.code

PagesRead == req.page

\* C11: a request resolved to a served path reads one and the same page
\* definition at resolution, at load and at render, whatever reloadPages does
\* while it is suspended; it never finds its served path gone from the table
\* nor a page of another table generation under it.
C11_OneGenerationPerRequest ==
  (RequestSeen /\ req.fileName # Unset) =>
    /\ req.pc # "failed"
    /\ \A i \in 1..Len(PagesRead) : PagesRead[i] = PagesRead[1]
    /\ req.pc \in {"loaded", "postprocessing", "ended"} =>
         req.loadResult =
           readFileSync(IF PagesRead[1].template # <<>> THEN PagesRead[1].template
                        ELSE template)
    /\ req.pc \in {"postprocessing", "ended"} => Len(PagesRead) = 3

\* a table build has just ended, by returning or by throwing
BuildEnds == ~BuildHappened /\ BuildHappened'

\* C12: a table build that throws, on a page's validation or on the scan of
\* the directories, leaves inputMap, virtualPageMap and the template set as
\* they were (after a failed startup: empty), and the route pattern too.
C12_FailedBuildKeepsTable ==
  /\ [](phase = "aborted" => (inputMap = <<>> /\ virtualPageMap = EmptyMap /\ tplSet = {}))
  /\ [][(BuildEnds /\ event'.outcome # "ok") => UNCHANGED <<table, rewriteReg>>]_vars

\* C12 witness: a rebuild of a non-empty table threw on its second page; the
\* sound page before it is not registered
C12_Witness ==
  /\ event.kind = "reload"
  /\ event.outcome = "ConfigurationError"
  /\ inputMap # <<>>
  /\ Len(event.explicit) = 2
  /\ ~Defective(event.explicit[1])
  /\ ~Has(inputMap, event.explicit[1].name)

\* C13: in every published table each name of inputMap maps to a key of
\* virtualPageMap whose page has that name, and every key of virtualPageMap is
\* the served path of exactly one name; two names never share a served path.
C13_TableConsistency ==
  /\ \A i \in 1..Len(inputMap) :
       /\ inputMap[i].v \in DOMAIN virtualPageMap
       /\ virtualPageMap[inputMap[i].v].name = inputMap[i].k
  /\ \A f \in DOMAIN virtualPageMap :
       Cardinality({i \in 1..Len(inputMap) : inputMap[i].v = f}) = 1
  /\ \A i, j \in 1..Len(inputMap) : inputMap[i].v = inputMap[j].v => i = j

\* the paths that name the page p under the served base
RoutesOf(p) == {UnderBase(p), UnderBase(p \o DotHtml), UnderBase(p \o DotHtm)}

\* C14: a request is resolved to a served path only when its path is
\* "/{base}/name", "/{base}/name.html" or "/{base}/name.htm" of a registered
\* name, and then to the served path of that name; a path with a segment
\* before the base or after the name is resolved to nothing.
C14_RouteAnchored ==
  (RequestSeen /\ req.fileName # Unset) =>
    \E i \in 1..Len(inputMap) :
      /\ ReqPathname \in RoutesOf(inputMap[i].k)
      /\ req.fileName = inputMap[i].v

\* the middleware has just taken a request
RequestStarts == req.pc = "idle" /\ req'.pc # "idle"
\* the names the route pattern in use was built from
PatternNames ==
  {n \in {NameA, NameB, NamePlus} :
     \E i \in 1..Len(SplitBar(rewriteReg.group, <<>>)) : SplitBar(rewriteReg.group, <<>>)[i] = n}

\* C15: a request that starts when the table no longer has the name p is
\* passed on when it asks for a route of p, with nothing set on the response
\* and no error, although the pattern in use still has p; and a request is
\* never resolved to a served path that the table's inputMap does not hold.
C15_RemovedPagePassesThrough ==
  [][RequestStarts =>
       /\ req'.fileName # Unset =>
            \E i \in 1..Len(inputMap) : inputMap[i].v = req'.fileName
       /\ \A p \in PatternNames :
            ( /\ ~Has(inputMap, p)
              /\ UrlPathname(req'.originalUrl) \in RoutesOf(p) )
            => /\ req'.pc = "passed"
               /\ req'.nextCalled
               /\ req'.fileName = Unset
               /\ req'.resLog = <<>>
               /\ req'.body = <<>>]_vars

\* C15 witness: after a reload that dropped page b, an eligible request for
\* /b that no rewrite rule matches, and that the pattern still recognises,
\* has been passed on
C15_Witness ==
  /\ reloads > 0
  /\ ~Has(inputMap, NameB)
  /\ inputMap # <<>>
  /\ RequestSeen
  /\ ReqEligible
  /\ ReqPathname = <<"/", "b">>
  /\ RegMatch(rewriteReg, ReqPathname).group1 = NameB
  /\ "route" \in req.evaluated
  /\ req.pc = "passed"

\* the first rule in declaration order that matches the request's path, 0 if none
FirstMatchingRule ==
  IF \E i \in 1..Len(rewrites) : ReqMatchesRule(i)
    THEN CHOOSE i \in 1..Len(rewrites) :
           ReqMatchesRule(i) /\ \A j \in 1..(i - 1) : ~ReqMatchesRule(j)
  ELSE 0
\* the target of a rule: its string, or what its function makes of the path
TargetOf(rule) == IF rule.toIsFunction THEN rule.to \o ReqPathname ELSE rule.to

\* C16: the url of an eligible request becomes the target of the first rule, in
\* declaration order, that matches its original path, and the request is passed
\* on at once: the target is not matched against the rules again; when no rule
\* matches, the url stays as it was and the virtual route is tried.
C16_FirstRuleOnce ==
  (RequestSeen /\ ReqEligible) =>
    IF FirstMatchingRule # 0
      THEN /\ req.url = TargetOf(rewrites[FirstMatchingRule])
           /\ req.pc = "passed"
           /\ req.evaluated = {"rewrites"}
      ELSE /\ req.url = req.originalUrl
           /\ "route" \in req.evaluated

\* C16 witness: two rules with different targets match the path; the url is
\* the first one's target, which another rule would rewrite again
C16_Witness ==
  /\ RequestSeen
  /\ ReqEligible
  /\ req.pc = "passed"
  /\ \E i, j \in 1..Len(rewrites) :
       /\ i < j
       /\ ReqMatchesRule(i)
       /\ ReqMatchesRule(j)
       /\ \A k \in 1..(i - 1) : ~ReqMatchesRule(k)
       /\ rewrites[i].to # rewrites[j].to
       /\ req.url = rewrites[i].to
  /\ \E k \in 1..Len(rewrites) :
       RegExpTest(rewrites[k].from, req.url) /\ rewrites[k].to # req.url

\* C17: a reloadPages call changes nothing but inputMap, virtualPageMap and
\* the template set: it sends no message to the clients, leaves the request in
\* flight and its response as they are, and leaves the options (the rewrite
\* rules and the default template among them) and the resolved configuration
\* unchanged.
C17_ReloadFrame ==
  [][(BuildEnds /\ event'.kind = "reload") =>
       /\ event'.ws = <<>>
       /\ req' = req
       /\ UNCHANGED <<rewrites, template, pages, scanOptions, userBase>>
       /\ UNCHANGED <<resolvedConfig, phase, rendered>>]_vars

\* C17 witness: a reload has published another table while a request that
\* has set its headers awaits its load, under a list of rewrite rules
C17_Witness ==
  /\ event.kind = "reload"
  /\ event.outcome = "ok"
  /\ req.pc = "loading"
  /\ req.resLog # <<>>
  /\ req.fileName \notin DOMAIN virtualPageMap
  /\ rewrites # <<>>

\* C18: transform returns null whenever it modified nothing: for an id that is
\* no served path of the table, and for a registered page without entry whose
\* content the substitution of variables leaves as it is; it returns a
\* content only when the content differs from its input.
C18_NullWhenUnchanged ==
  TransformCalled =>
    /\ rendered.id \notin DOMAIN virtualPageMap => rendered.isNull
    /\ ( /\ rendered.id \in DOMAIN virtualPageMap
         /\ RenderedPage.entry = <<>>
         /\ ejsRender(rendered.content, resolvedConfig.env, RenderedPage.data)
              = rendered.content )
       => rendered.isNull
    /\ ~rendered.isNull => rendered.code # rendered.content

\* the load of the request's served path returns nothing
LoadsNothing ==
  LET l == load(req.fileName, virtualPageMap, template) IN l.isNull \/ l.code = <<>>

\* C19: a request resolved to a served path of the table for which the load
\* returns nothing fails: it is not passed on, nothing is written as its body,
\* no request with an empty load result goes on to render, and the step that
\* fails it leaves the table and the route pattern as they were.
C19_LoadFailure ==
  /\ []( /\ req.pc = "failed" =>
              /\ ~req.nextCalled
              /\ req.body = <<>>
              /\ \A i \in 1..Len(req.resLog) : req.resLog[i] # "end"
         /\ req.pc \in {"loaded", "postprocessing", "ended"} => req.loadResult # <<>> )
  /\ [][(req.pc = "loading" /\ LoadsNothing /\ req' # req)
          => (req'.pc = "failed" /\ UNCHANGED <<table, rewriteReg>>)]_vars

\* C19 witness: a request for a registered page whose template file is empty
\* has failed, the page still being in the table
C19_Witness ==
  /\ req.pc = "failed"
  /\ req.fileName \in DOMAIN virtualPageMap
  /\ Has(inputMap, <<"e">>)
  /\ Get(inputMap, <<"e">>) = req.fileName
  /\ req.resLog = <<"setHeader Content-Type text/html", "statusCode 200">>

\* the prefix of a route under the base the server serves from
EffectivePrefix == normalizePath(Slash \o resolvedConfig.base \o Slash)

\* C20: the prefix of the route pattern is "/{base}/" of the resolved base,
\* the one the handler reports its target under, also when the user
\* configuration gives no base; so on the table built at startup every page
\* with a plain name is resolved under the base in effect.
C20_PatternUsesEffectiveBase ==
  (rewriteReg.defined /\ resolvedConfig.resolved) =>
    /\ rewriteReg.prefix = EffectivePrefix
    /\ reloads = 0 =>
         \A i \in 1..Len(inputMap) :
           inputMap[i].k \in {NameA, NameB}
           => ResolveRoute(EffectivePrefix \o inputMap[i].k, rewriteReg, inputMap)
                = inputMap[i].v

=============================================================================
